---- MODULE Spec2Model ----
(***************************************************************************)
(* Model of the blog_rust_lambda HTTP function: the request router         *)
(* (src/src/http_handler.rs) and the DynamoDB and S3 adapters              *)
(* (src/src/dynamodb.rs, src/src/s3.rs).                                   *)
(*                                                                         *)
(* One invocation of function_handler is one step.  The two managed        *)
(* services are external: the DynamoDB tables are state (GetItem, PutItem, *)
(* DeleteItem, Scan and Query act on them as the service documents), an    *)
(* S3 listing and the outcome (Ok / Err) of every service call are inputs. *)
(*                                                                         *)
(* http_handler.rs calls get_item_value(part, idx), put_item(part, idx,    *)
(* value) and delete_item(part, idx); dynamodb.rs declares them with a     *)
(* leading table_name and, for put_item, a pk.  Here the table is the      *)
(* first argument of each adapter operator and the item routes pass        *)
(* ItemPk for pk; the key attribute dynamodb.rs names "index" holds the    *)
(* request's idx.                                                          *)
(***************************************************************************)
EXTENDS Integers, Sequences, FiniteSets, TLC

\* Every record of this module lists its fields in the order of this schema:
\* TLC orders the fields of a record by the first occurrence of their names,
\* so every record value below is written in its normal form.
Schema ==
    [absent |-> {}, args |-> {}, before |-> {}, body |-> {}, calls |-> {},
     common_prefixes |-> {}, contents |-> {}, data |-> {}, fields |-> {},
     headers |-> {}, id |-> {}, idx |-> {}, index |-> {}, json |-> {},
     kind |-> {}, method |-> {}, ok |-> {}, op |-> {}, outcome |-> {},
     part |-> {}, path |-> {}, pk |-> {}, query |-> {}, resp |-> {},
     result |-> {}, s3_bucket |-> {}, s3_path |-> {}, sent |-> {},
     status |-> {}, svc |-> {}, table |-> {}, val |-> {}, value |-> {}]

VARIABLES env, items, entities, req, resp, calls, prior, ret

vars == <<env, items, entities, req, resp, calls, prior, ret>>

-----------------------------------------------------------------------------
(* Bounds of the model *)

\* number of distinct non-empty record values / entity values
MaxVal == 2

-----------------------------------------------------------------------------
(* Option<String>: None is <<>>, Some(s) is <<s>> *)

None == <<>>

Some(s) == <<s>>

Opt(S) == {None} \cup {Some(s) : s \in S}

\* Option::unwrap_or_default on Option<String>
unwrap_or_default(o) == IF o = None THEN "" ELSE o[1]

\* Option::unwrap_or
unwrap_or(o, d) == IF o = None THEN d ELSE o[1]

\* str::is_empty
is_empty(s) == s = ""

-----------------------------------------------------------------------------
(* Input alphabets *)

PartStr == {"p"}

IdxStr == {"i", "j"}

ValStr == {"v" \o ToString(n) : n \in 1..MaxVal}

FileStr == {"f.txt"}

ContentTypes == {"text/plain"}

EntityIds == {"x", "z"}

Methods == {"GET", "POST", "DELETE", "OPTIONS", "PUT"}

Paths == {"/helloWorld", "/dynamodb/item", "/dynamodb/list", "/dynamodb/x",
          "/dynamodb", "/api/s3/list", "/api/s3/upload-url",
          "/api/s3/download-url", "/api/s3/delete-url", "/nope"}

Buckets == {"bkt"}

BasePaths == {"base/"}

\* an item absent from a table
NoItem == [absent |-> TRUE]

-----------------------------------------------------------------------------
(* Result<T, E>: the error value is opaque *)

Ok(x) == [ok |-> TRUE, val |-> x]

Err == [ok |-> FALSE, val |-> "error"]

-----------------------------------------------------------------------------
(* dynamodb.rs: the key-value adapter.  `table` is the content of the      *)
(* table that table_name names, a function from primary key to item or     *)
(* NoItem; an item is a function from attribute name to string (every      *)
(* attribute written here is an AttributeValue::S).  `sent` is the outcome *)
(* of the single `.send().await?`: TRUE when the service answered, FALSE   *)
(* when the call failed, in which case the table is left as it was.        *)
(* Each operator yields [result, table]: the Result the function returns   *)
(* and the content of the table afterwards.                                *)

ItemKeys == PartStr \X IdxStr

get_item_value(table, part, index, sent) ==
    IF ~sent THEN [result |-> Err, table |-> table]
    ELSE LET item == table[<<part, index>>]
         IN  IF item = NoItem
             THEN [result |-> Ok(None), table |-> table]
             ELSE [result |-> Ok(IF "value" \in DOMAIN item
                                 THEN Some(item["value"]) ELSE None),
                   table |-> table]

put_item_keeps_old(table, part, index, pk, value, sent) ==
    IF ~sent THEN [result |-> Err, table |-> table]
    ELSE [result |-> Ok("unit"),
          table |-> IF table[<<part, index>>] = NoItem
                    THEN [table EXCEPT ![<<part, index>>] =
                            [index |-> index, part |-> part, pk |-> pk, value |-> value]]
                    ELSE table]

put_item(table, part, index, pk, value, sent) ==
    IF ~sent THEN [result |-> Err, table |-> table]
    ELSE [result |-> Ok("unit"),
          table |-> [table EXCEPT ![<<part, index>>] =
                       [index |-> index, part |-> part, pk |-> pk, value |-> value]]]

delete_item_fails_on_absent(table, part, index, sent) ==
    IF ~sent \/ table[<<part, index>>] = NoItem
    THEN [result |-> Err, table |-> table]
    ELSE [result |-> Ok("unit"), table |-> [table EXCEPT ![<<part, index>>] = NoItem]]

delete_item(table, part, index, sent) ==
    IF ~sent THEN [result |-> Err, table |-> table]
    ELSE [result |-> Ok("unit"), table |-> [table EXCEPT ![<<part, index>>] = NoItem]]

\* TestEntity { id, value: Option<String> }
TestEntity(id, value) == [id |-> id, value |-> value]

\* the loop of scan_test_entities and query_test_entities_by_id over the
\* items the service returned: an item without a string id is skipped
RECURSIVE collect_entities(_)
collect_entities(found) ==
    IF found = <<>> THEN <<>>
    ELSE LET item == Head(found)
             rest == collect_entities(Tail(found))
         IN  IF "id" \in DOMAIN item
             THEN <<TestEntity(item["id"],
                               IF "value" \in DOMAIN item
                               THEN Some(item["value"]) ELSE None)>> \o rest
             ELSE rest

\* the items of a table in the order the service returns them (by key here)
RECURSIVE ItemsOf(_, _)
ItemsOf(table, keys) ==
    IF keys = <<>> THEN <<>>
    ELSE (IF table[Head(keys)] = NoItem THEN <<>> ELSE <<table[Head(keys)]>>)
         \o ItemsOf(table, Tail(keys))

EntityIdOrder == <<"x", "z">>

scan_test_entities(table, sent) ==
    IF ~sent THEN [result |-> Err, table |-> table]
    ELSE [result |-> Ok(collect_entities(ItemsOf(table, EntityIdOrder))), table |-> table]

query_test_entities_by_id(table, id, sent) ==
    IF ~sent THEN [result |-> Err, table |-> table]
    ELSE [result |-> Ok(collect_entities(
                          IF id \in DOMAIN table THEN ItemsOf(table, <<id>>) ELSE <<>>)),
          table |-> table]

\* the item upsert_test_entity builds: id always, value only when Some
upsert_item(id, value) ==
    IF value = None THEN [id |-> id] ELSE [id |-> id, value |-> value[1]]

upsert_test_entity(table, id, value, sent) ==
    IF ~sent THEN [result |-> Err, table |-> table]
    ELSE [result |-> Ok("unit"), table |-> [table EXCEPT ![id] = upsert_item(id, value)]]

delete_test_entity_by_id(table, id, sent) ==
    IF ~sent THEN [result |-> Err, table |-> table]
    ELSE [result |-> Ok("unit"), table |-> [table EXCEPT ![id] = NoItem]]

-----------------------------------------------------------------------------
(* s3.rs: the object-store adapter.  `listing` is what ListObjectsV2       *)
(* answered: Err, or Ok of [common_prefixes, contents], each an            *)
(* Option<Vec<..>> whose elements carry an Option<String>.  `signed` is    *)
(* the outcome of `.presigned(..).await?`.                                 *)

\* Duration::from_secs(900)
ExpiresSecs == 900

\* the URI the presigner returns: verb, bucket, key and expiry are signed in
\* (the keys of this model hold no character that the URI would escape)
PresignedUri(verb, bucket, key, extra) ==
    "https://" \o bucket \o ".s3.amazonaws.com/" \o key
    \o "?X-Amz-Expires=" \o ToString(ExpiresSecs) \o "&verb=" \o verb \o extra

RECURSIVE some_strings(_)
\* `if let Some(x) = p.prefix { push(x) }` over a Vec
some_strings(v) ==
    IF v = <<>> THEN <<>>
    ELSE (IF Head(v) = None THEN <<>> ELSE <<Head(v)[1]>>) \o some_strings(Tail(v))

RECURSIVE keys_other_than(_, _)
\* `if let Some(key) = obj.key { if key != prefix { push(key) } }`
keys_other_than(v, prefix) ==
    IF v = <<>> THEN <<>>
    ELSE (IF Head(v) = None \/ Head(v)[1] = prefix THEN <<>> ELSE <<Head(v)[1]>>)
         \o keys_other_than(Tail(v), prefix)

list_objects(bucket, prefix, listing) ==
    IF ~listing.ok THEN Err
    ELSE LET r == listing.val
             folders == IF r.common_prefixes = None THEN <<>>
                        ELSE some_strings(r.common_prefixes[1])
             files == IF r.contents = None THEN <<>>
                      ELSE keys_other_than(r.contents[1], prefix)
         IN  Ok(<<folders, files>>)

presign_upload(bucket, key, content_type, signed) ==
    IF ~signed THEN Err
    ELSE Ok(PresignedUri("PUT", bucket, key,
                         "&content-type=" \o content_type \o "&x-amz-storage-class=GLACIER_IR"))

presign_download(bucket, key, signed) ==
    IF ~signed THEN Err ELSE Ok(PresignedUri("GET", bucket, key, ""))

presign_delete(bucket, key, signed) ==
    IF ~signed THEN Err ELSE Ok(PresignedUri("DELETE", bucket, key, ""))

\* what ListObjectsV2 may answer for a prefix: nothing at all, empty vectors,
\* or one sub-folder and two objects, one of them the prefix placeholder itself
ListingKinds == {"absent", "empty", "full"}

S3Listing(kind, prefix) ==
    CASE kind = "absent" -> Ok([common_prefixes |-> None, contents |-> None])
      [] kind = "empty" -> Ok([common_prefixes |-> Some(<<>>), contents |-> Some(<<>>)])
      [] OTHER -> Ok([common_prefixes |-> Some(<<Some(prefix \o "d/"), None>>),
                      contents |-> Some(<<Some(prefix), Some(prefix \o "f.txt")>>)])

-----------------------------------------------------------------------------
(* http_handler.rs: requests and responses *)

\* a query string is a sequence of decoded <<key, value>> pairs;
\* query_param returns the value of the first pair whose key matches
RECURSIVE find_first(_, _)
find_first(q, key) ==
    IF q = <<>> THEN None
    ELSE IF Head(q)[1] = key THEN Some(Head(q)[2])
    ELSE find_first(Tail(q), key)

query_param(r, key) == find_first(r.query, key)

\* the query string that carries the given optional parameters, in this order
Pair(key, o) == IF o = None THEN <<>> ELSE <<<<key, o[1]>>>>

Query(part, idx, filename, contentType) ==
    Pair("part", part) \o Pair("idx", idx) \o Pair("filename", filename)
    \o Pair("contentType", contentType)

\* the JSON text of a body: malformed, or an object holding the string
\* fields that are Some
JsonFields == {"part", "idx", "value"}

Malformed == [fields |-> <<>>, json |-> "malformed"]

JsonObject(part, idx, value) ==
    LET given == [idx |-> idx, part |-> part, value |-> value]
    IN  [fields |-> [n \in {m \in JsonFields : given[m] # None} |-> given[n][1]],
         json |-> "object"]

\* serde_json::from_str / from_slice into DynamodbPutItemPayload: every one
\* of part, idx, value is a required String; unknown fields are ignored
DynamodbPutItemPayload(doc) ==
    IF doc.json = "object" /\ JsonFields \subseteq DOMAIN doc.fields
    THEN Ok([idx |-> doc.fields["idx"], part |-> doc.fields["part"],
             value |-> doc.fields["value"]])
    ELSE Err

EmptyBody == [data |-> Malformed, kind |-> "Empty"]

TextBody(doc) == [data |-> doc, kind |-> "Text"]

BinaryBody(doc) == [data |-> doc, kind |-> "Binary"]

Request(method, path, query, body) ==
    [body |-> body, method |-> method, path |-> path, query |-> query]

\* HeaderMap::insert: one value per name
insert(headers, name, value) ==
    {h \in headers : h[1] # name} \cup {<<name, value>>}

add_cors_headers(headers) ==
    insert(insert(insert(headers,
        "Access-Control-Allow-Origin", "*"),
        "Access-Control-Allow-Methods", "GET,POST,DELETE,OPTIONS"),
        "Access-Control-Allow-Headers", "Content-Type,Authorization")

\* u16 -> StatusCode: try_into().unwrap_or_default()
StatusCode(status) == IF 100 <= status /\ status <= 999 THEN status ELSE 200

\* what an invocation yields: Ok(response), Err(e) or a panic
Response(status, kind, body, headers) ==
    [body |-> body, headers |-> headers, kind |-> kind, outcome |-> "response",
     status |-> status]

Failed(how) ==
    [body |-> "", headers |-> {}, kind |-> "None", outcome |-> how, status |-> 0]

text_response(status, body) ==
    Response(StatusCode(status), "Text", body, add_cors_headers({}))

\* serde_json::Value::to_string of strings and arrays of strings
JsonString(str) == "\"" \o str \o "\""

RECURSIVE JsonElems(_)
JsonElems(v) ==
    IF v = <<>> THEN ""
    ELSE IF Len(v) = 1 THEN JsonString(v[1])
    ELSE JsonString(v[1]) \o "," \o JsonElems(Tail(v))

JsonArray(v) == "[" \o JsonElems(v) \o "]"

\* json!({ "folders": folders, "files": files }).to_string(): a
\* serde_json map orders its keys
ListingJson(folders, files) ==
    "{\"files\":" \o JsonArray(files) \o ",\"folders\":" \o JsonArray(folders) \o "}"

json_response(status, body) ==
    Response(StatusCode(status), "Text", body,
             add_cors_headers(insert({}, "content-type", "application/json; charset=utf-8")))

-----------------------------------------------------------------------------
(* http_handler.rs: object keys *)

\* `if let (Some(part_val), Some(idx_val)) = (&part, &idx)` and
\* `!part_val.is_empty() && !idx_val.is_empty()`
both_given(part, idx) ==
    /\ part # None
    /\ idx # None
    /\ ~is_empty(part[1])
    /\ ~is_empty(idx[1])

list_prefix(base_path, part, idx) ==
    IF both_given(part, idx)
    THEN base_path \o "upload/" \o part[1] \o "/" \o idx[1] \o "/"
    ELSE base_path \o "upload/"

upload_key(base_path, part, idx, filename) ==
    IF both_given(part, idx)
    THEN base_path \o "upload/" \o part[1] \o "/" \o idx[1] \o "/" \o filename
    ELSE base_path \o "upload/" \o filename

download_key_under_upload(base_path, part, idx, filename) ==
    IF both_given(part, idx)
    THEN base_path \o "upload/" \o part[1] \o "/" \o idx[1] \o "/" \o filename
    ELSE base_path \o "upload/" \o filename

download_key(base_path, part, idx, filename) ==
    IF both_given(part, idx)
    THEN base_path \o part[1] \o "/" \o idx[1] \o "/" \o filename
    ELSE base_path \o filename

delete_key(base_path, part, idx, filename) ==
    IF both_given(part, idx)
    THEN base_path \o part[1] \o "/" \o idx[1] \o "/" \o filename
    ELSE base_path \o filename

-----------------------------------------------------------------------------
(* http_handler.rs: function_handler.  `e` is the process environment,     *)
(* `table` the item table, `bk` what the backend does with the one call    *)
(* the invocation may make: bk.sent (the call succeeds) and bk.kind (what  *)
(* a listing answers).  The result is the invocation's outcome, the        *)
(* backend calls it made, and the item table afterwards.                   *)

Done(response, made, table) == [calls |-> made, resp |-> response, table |-> table]

\* a backend call and whether the service carried it out
Call(svc, op, args, ok) == [args |-> args, ok |-> ok, op |-> op, svc |-> svc]

\* the pk attribute of the records the item routes write
ItemPk == ""

options_response == Response(200, "Empty", "", add_cors_headers({}))

get_item_route(r, table, bk) ==
    LET part == unwrap_or_default(query_param(r, "part"))
        idx == unwrap_or_default(query_param(r, "idx"))
        got == get_item_value(table, part, idx, bk.sent)
        made == <<Call("dynamodb", "get_item", <<part, idx>>, bk.sent)>>
    IN  IF is_empty(part) THEN Done(text_response(400, "part is required"), <<>>, table)
        ELSE IF is_empty(idx) THEN Done(text_response(400, "idx is required"), <<>>, table)
        ELSE IF ~got.result.ok
             THEN Done(text_response(500, "dynamodb error"), made, got.table)
        ELSE IF got.result.val # None
             THEN Done(text_response(200, got.result.val[1]), made, got.table)
        ELSE Done(text_response(200, "Value not found"), made, got.table)

post_item_route(r, table, bk) ==
    LET body == r.body
        parsed == DynamodbPutItemPayload(body.data)
    IN  IF body.kind = "Empty" THEN Done(text_response(400, "empty body"), <<>>, table)
        ELSE IF body.kind \notin {"Text", "Binary"}
             THEN Done(text_response(400, "unsupported body type"), <<>>, table)
        ELSE IF ~parsed.ok THEN Done(Failed("err"), <<>>, table)
        ELSE LET payload == parsed.val
                 put == put_item(table, payload.part, payload.idx, ItemPk,
                                 payload.value, bk.sent)
                 made == <<Call("dynamodb", "put_item",
                                <<payload.part, payload.idx, payload.value>>,
                                bk.sent)>>
             IN  IF is_empty(payload.part)
                 THEN Done(text_response(400, "part is required"), <<>>, table)
                 ELSE IF is_empty(payload.idx)
                 THEN Done(text_response(400, "idx is required"), <<>>, table)
                 ELSE IF ~put.result.ok
                 THEN Done(text_response(500, "dynamodb error"), made, put.table)
                 ELSE Done(text_response(200, "Success"), made, put.table)

delete_item_route_propagates(r, table, bk) ==
    LET part == unwrap_or_default(query_param(r, "part"))
        idx == unwrap_or_default(query_param(r, "idx"))
        del == delete_item(table, part, idx, bk.sent)
        made == <<Call("dynamodb", "delete_item", <<part, idx>>, bk.sent)>>
    IN  IF is_empty(part) THEN Done(text_response(400, "part is required"), <<>>, table)
        ELSE IF is_empty(idx) THEN Done(text_response(400, "idx is required"), <<>>, table)
        ELSE IF ~del.result.ok THEN Done(Failed("err"), made, del.table)
        ELSE Done(text_response(200, "Success"), made, del.table)

delete_item_route(r, table, bk) ==
    LET part == unwrap_or_default(query_param(r, "part"))
        idx == unwrap_or_default(query_param(r, "idx"))
        del == delete_item(table, part, idx, bk.sent)
        made == <<Call("dynamodb", "delete_item", <<part, idx>>, bk.sent)>>
    IN  IF is_empty(part) THEN Done(text_response(400, "part is required"), <<>>, table)
        ELSE IF is_empty(idx) THEN Done(text_response(400, "idx is required"), <<>>, table)
        ELSE IF ~del.result.ok
             THEN Done(text_response(500, "dynamodb error"), made, del.table)
        ELSE Done(text_response(200, "Success"), made, del.table)

s3_list_route(r, bucket, base_path, table, bk) ==
    LET part == query_param(r, "part")
        idx == query_param(r, "idx")
        prefix == list_prefix(base_path, part, idx)
        listed == list_objects(bucket, prefix,
                               IF bk.sent THEN S3Listing(bk.kind, prefix) ELSE Err)
        made == <<Call("s3", "list_objects", <<bucket, prefix>>, bk.sent)>>
    IN  IF listed.ok
        THEN Done(json_response(200, ListingJson(listed.val[1], listed.val[2])), made, table)
        ELSE Done(text_response(500, "s3 error"), made, table)

upload_url_route(r, bucket, base_path, table, bk) ==
    LET part == query_param(r, "part")
        idx == query_param(r, "idx")
        filename == unwrap_or_default(query_param(r, "filename"))
        content_type == unwrap_or(query_param(r, "contentType"), "application/octet-stream")
        key == upload_key(base_path, part, idx, filename)
        url == presign_upload(bucket, key, content_type, bk.sent)
        made == <<Call("s3", "presign_upload", <<bucket, key, content_type>>, bk.sent)>>
    IN  IF is_empty(filename)
        THEN Done(text_response(400, "filename is required"), <<>>, table)
        ELSE IF url.ok THEN Done(text_response(200, url.val), made, table)
        ELSE Done(text_response(500, "s3 error"), made, table)

download_url_route(r, bucket, base_path, table, bk) ==
    LET part == query_param(r, "part")
        idx == query_param(r, "idx")
        filename == unwrap_or_default(query_param(r, "filename"))
        key == download_key(base_path, part, idx, filename)
        url == presign_download(bucket, key, bk.sent)
        made == <<Call("s3", "presign_download", <<bucket, key>>, bk.sent)>>
    IN  IF is_empty(filename)
        THEN Done(text_response(400, "filename is required"), <<>>, table)
        ELSE IF url.ok THEN Done(text_response(200, url.val), made, table)
        ELSE Done(text_response(500, "s3 error"), made, table)

delete_url_route(r, bucket, base_path, table, bk) ==
    LET part == query_param(r, "part")
        idx == query_param(r, "idx")
        filename == unwrap_or_default(query_param(r, "filename"))
        key == delete_key(base_path, part, idx, filename)
        url == presign_delete(bucket, key, bk.sent)
        made == <<Call("s3", "presign_delete", <<bucket, key>>, bk.sent)>>
    IN  IF is_empty(filename)
        THEN Done(text_response(400, "filename is required"), <<>>, table)
        ELSE IF url.ok THEN Done(text_response(200, url.val), made, table)
        ELSE Done(text_response(500, "s3 error"), made, table)

not_found_without_method(method, path) == text_response(404, "not found: " \o path)

not_found(method, path) == text_response(404, "not found: " \o method \o " " \o path)

\* the chain of route tests that follows the reading of the environment
dispatch(r, bucket, base_path, table, bk) ==
    LET path == r.path
        method == r.method
    IN  IF method = "GET" /\ path = "/helloWorld"
             THEN Done(text_response(200, "OK"), <<>>, table)
        ELSE IF path = "/dynamodb/item" /\ method = "GET"
             THEN get_item_route(r, table, bk)
        ELSE IF path = "/dynamodb/item" /\ method = "POST"
             THEN post_item_route(r, table, bk)
        ELSE IF path = "/dynamodb/item" /\ method = "DELETE"
             THEN delete_item_route(r, table, bk)
        ELSE IF path = "/api/s3/list" /\ method = "GET"
             THEN s3_list_route(r, bucket, base_path, table, bk)
        ELSE IF path = "/api/s3/upload-url" /\ method = "GET"
             THEN upload_url_route(r, bucket, base_path, table, bk)
        ELSE IF path = "/api/s3/download-url" /\ method = "GET"
             THEN download_url_route(r, bucket, base_path, table, bk)
        ELSE IF path = "/api/s3/delete-url" /\ method = "GET"
             THEN delete_url_route(r, bucket, base_path, table, bk)
        ELSE Done(not_found(method, path), <<>>, table)

function_handler_reads_env_first(r, e, table, bk) ==
    IF e.s3_bucket = None THEN Done(Failed("panic"), <<>>, table)
    ELSE IF r.method = "OPTIONS" THEN Done(options_response, <<>>, table)
    ELSE dispatch(r, e.s3_bucket[1], unwrap_or_default(e.s3_path), table, bk)

\* `std::env::var("s3_bucket").expect(..)` panics when the variable is unset
function_handler(r, e, table, bk) ==
    IF r.method = "OPTIONS" THEN Done(options_response, <<>>, table)
    ELSE IF e.s3_bucket = None THEN Done(Failed("panic"), <<>>, table)
    ELSE dispatch(r, e.s3_bucket[1], unwrap_or_default(e.s3_path), table, bk)

-----------------------------------------------------------------------------
(* The state machine.  env is the process environment (s3_bucket, s3_path), *)
(* items and entities are the two DynamoDB tables, req / resp / calls are   *)
(* the last invocation of function_handler: its request, its outcome and    *)
(* the backend calls it made; ret is the last direct call of an entity      *)
(* operation of dynamodb.rs.  prior is a history variable: when the last    *)
(* invocation reads the record that the invocation just before it wrote or  *)
(* deleted with a 200 "Success", prior says so (<<"written", v>> or         *)
(* <<"deleted">>); otherwise it is <<>>.                                    *)

NoRequest == Request("", "", <<>>, EmptyBody)

NoReturn == [before |-> NoItem, id |-> "", op |-> "none", result |-> Err, value |-> None]

\* the backend outcome of an invocation that is not asked about it
Unasked == [kind |-> "empty", sent |-> TRUE]

Backends == [kind : {"empty"}, sent : BOOLEAN]

Listings == [kind : ListingKinds, sent : {TRUE}] \cup [kind : {"empty"}, sent : {FALSE}]

\* the values a query parameter or a JSON field may take
PartArgs == Opt({""} \cup PartStr)

IdxArgs == Opt({""} \cup IdxStr)

ValueArgs == Opt({""} \cup ValStr)

FileArgs == Opt({""} \cup FileStr)

\* the object-store routes only splice part and idx into a key
FolderArgs == Opt({"", "i"})

Init ==
    /\ env \in [s3_bucket : Opt(Buckets), s3_path : Opt(BasePaths)]
    /\ items = [k \in ItemKeys |-> NoItem]
    /\ entities = [id \in EntityIds |-> NoItem]
    /\ req = NoRequest
    /\ resp = Failed("none")
    /\ calls = <<>>
    /\ prior = <<>>
    /\ ret = NoReturn

\* the record key an item request names: the JSON body of a POST, the query
\* string of a GET or DELETE
KeyOf(r) ==
    IF r.method = "POST"
    THEN LET parsed == DynamodbPutItemPayload(r.body.data)
         IN  IF parsed.ok THEN <<parsed.val.part, parsed.val.idx>> ELSE <<"", "">>
    ELSE <<unwrap_or_default(query_param(r, "part")),
           unwrap_or_default(query_param(r, "idx"))>>

\* the last invocation (req, resp) acknowledged a write or a delete
Acknowledged(method) ==
    /\ req.method = method
    /\ req.path = "/dynamodb/item"
    /\ resp.outcome = "response"
    /\ resp.status = 200
    /\ resp.body = "Success"

Prior(r) ==
    IF r.method = "GET" /\ r.path = "/dynamodb/item"
    THEN IF Acknowledged("POST") /\ KeyOf(req) = KeyOf(r)
         THEN <<"written", DynamodbPutItemPayload(req.body.data).val.value>>
         ELSE IF Acknowledged("DELETE") /\ KeyOf(req) = KeyOf(r)
         THEN <<"deleted">>
         ELSE <<>>
    ELSE <<>>

\* one invocation of the Lambda function: `out` is what function_handler
\* yields for the request
Invoke(r, out) ==
    /\ req' = r
    /\ resp' = out.resp
    /\ calls' = out.calls
    /\ items' = out.table
    /\ prior' = Prior(r)
    /\ UNCHANGED <<env, entities, ret>>

Preflight ==
    \E path \in Paths, part \in Opt(PartStr), body \in {EmptyBody, TextBody(Malformed)} :
        \E r \in {Request("OPTIONS", path, Query(part, None, None, None), body)} :
            Invoke(r, function_handler(r, env, items, Unasked))

Bare ==
    \E method \in Methods \ {"OPTIONS"}, path \in Paths :
        \E r \in {Request(method, path, <<>>, EmptyBody)} :
            Invoke(r, function_handler(r, env, items, Unasked))

GetItem ==
    \E part \in PartArgs, idx \in IdxArgs, bk \in Backends :
        \E r \in {Request("GET", "/dynamodb/item", Query(part, idx, None, None), EmptyBody)} :
            Invoke(r, function_handler(r, env, items, bk))

\* a query string that repeats a key: the first occurrence wins
GetItemRepeated ==
    \E first \in {""} \cup PartStr, second \in {""} \cup PartStr, idx \in IdxStr :
        \E r \in {Request("GET", "/dynamodb/item",
                       <<<<"part", first>>, <<"part", second>>, <<"idx", idx>>>>,
                       EmptyBody)} :
            Invoke(r, function_handler(r, env, items, Unasked))

PostItem ==
    \E part \in PartArgs, idx \in IdxArgs, value \in ValueArgs, bk \in Backends :
        \E r \in {Request("POST", "/dynamodb/item", <<>>,
                       TextBody(JsonObject(part, idx, value)))} :
            Invoke(r, function_handler(r, env, items, bk))

PostItemOther ==
    \E body \in {EmptyBody, TextBody(Malformed), BinaryBody(Malformed)}
                \cup {BinaryBody(JsonObject(Some(part), Some(idx), Some(value))) :
                        part \in PartStr, idx \in IdxStr, value \in ValStr} :
        \E r \in {Request("POST", "/dynamodb/item", <<>>, body)} :
            Invoke(r, function_handler(r, env, items, Unasked))

DeleteItem ==
    \E part \in PartArgs, idx \in IdxArgs, bk \in Backends :
        \E r \in {Request("DELETE", "/dynamodb/item", Query(part, idx, None, None), EmptyBody)} :
            Invoke(r, function_handler(r, env, items, bk))

S3List ==
    \E part \in PartArgs, idx \in FolderArgs, bk \in Listings :
        \E r \in {Request("GET", "/api/s3/list", Query(part, idx, None, None), EmptyBody)} :
            Invoke(r, function_handler(r, env, items, bk))

UploadUrl ==
    \E part \in PartArgs, idx \in FolderArgs, filename \in FileArgs,
       contentType \in Opt(ContentTypes), bk \in Backends :
        \E r \in {Request("GET", "/api/s3/upload-url",
                       Query(part, idx, filename, contentType), EmptyBody)} :
            Invoke(r, function_handler(r, env, items, bk))

DownloadUrl ==
    \E part \in PartArgs, idx \in FolderArgs, filename \in FileArgs, bk \in Backends :
        \E r \in {Request("GET", "/api/s3/download-url",
                       Query(part, idx, filename, None), EmptyBody)} :
            Invoke(r, function_handler(r, env, items, bk))

DeleteUrl ==
    \E part \in PartArgs, idx \in FolderArgs, filename \in FileArgs, bk \in Backends :
        \E r \in {Request("GET", "/api/s3/delete-url",
                       Query(part, idx, filename, None), EmptyBody)} :
            Invoke(r, function_handler(r, env, items, bk))

Next ==
    \/ Preflight
    \/ Bare
    \/ GetItem
    \/ GetItemRepeated
    \/ PostItem
    \/ PostItemOther
    \/ DeleteItem
    \/ S3List
    \/ UploadUrl
    \/ DownloadUrl
    \/ DeleteUrl

Spec == Init /\ [][Next]_vars

-----------------------------------------------------------------------------
(* The entity operations of dynamodb.rs, called directly: function_handler *)
(* has no route that reaches them.  ret records the call, the item the     *)
(* table held under the id before it, and what the call returned.          *)

Returned(op, id, value, out) ==
    [before |-> IF id \in EntityIds THEN entities[id] ELSE NoItem,
     id |-> id, op |-> op, result |-> out.result, value |-> value]

Adapter(op, id, value, out) ==
    /\ entities' = out.table
    /\ ret' = Returned(op, id, value, out)
    /\ UNCHANGED <<env, items, req, resp, calls, prior>>

Upsert ==
    \E id \in EntityIds, value \in ValueArgs, sent \in BOOLEAN :
        Adapter("upsert", id, value, upsert_test_entity(entities, id, value, sent))

DeleteById ==
    \E id \in EntityIds, sent \in BOOLEAN :
        Adapter("delete", id, None, delete_test_entity_by_id(entities, id, sent))

Scan ==
    \E sent \in BOOLEAN :
        Adapter("scan", "", None, scan_test_entities(entities, sent))

QueryById ==
    \E id \in EntityIds \cup {"absent-id"}, sent \in BOOLEAN :
        Adapter("query", id, None, query_test_entities_by_id(entities, id, sent))

NextAdapter ==
    \/ Upsert
    \/ DeleteById
    \/ Scan
    \/ QueryById

SpecAdapter == Init /\ [][NextAdapter]_vars

-----------------------------------------------------------------------------
(* Properties *)

Invoked == resp.outcome # "none"

Answered(status, body) ==
    /\ resp.outcome = "response"
    /\ resp.status = status
    /\ resp.body = body

ItemRequest(method) == req.method = method /\ req.path = "/dynamodb/item"

\* no backend call of the last invocation failed
NoBackendError == \A n \in 1..Len(calls) : calls[n].ok

BucketSet == env.s3_bucket # None

CorsHeaders ==
    {<<"Access-Control-Allow-Origin", "*">>,
     <<"Access-Control-Allow-Methods", "GET,POST,DELETE,OPTIONS">>,
     <<"Access-Control-Allow-Headers", "Content-Type,Authorization">>}

\* C1: after POST /dynamodb/item {part:p, idx:i, value:v} answered
\* 200 "Success", the GET of (p, i) that follows it, its backend call not
\* failing, answers 200 with body exactly v, whatever (p, i) held before
\* the write.
C1_WriteThenRead ==
    (Len(prior) = 2 /\ prior[1] = "written" /\ NoBackendError)
        => Answered(200, prior[2])

C1_Witness ==
    /\ prior = <<"written", "v2">>
    /\ ItemRequest("GET")
    /\ Len(calls) = 1 /\ calls[1].ok
    /\ Answered(200, "v2")

\* C2 as stated: DELETE /dynamodb/item of a non-empty (p, i) answers
\* 200 "Success" whether or not the record exists, and the GET of (p, i) that
\* follows it answers 200 "Value not found" (no backend call failing).
C2_DeleteAlwaysSucceeds ==
    /\ (/\ Invoked
        /\ ItemRequest("DELETE")
        /\ KeyOf(req)[1] # "" /\ KeyOf(req)[2] # ""
        /\ NoBackendError)
            => Answered(200, "Success")
    /\ (prior = <<"deleted">> /\ NoBackendError)
            => Answered(200, "Value not found")

\* C2 amended: the same, for a function whose s3_bucket variable is set.
C2_DeleteThenRead ==
    /\ (/\ BucketSet
        /\ Invoked
        /\ ItemRequest("DELETE")
        /\ KeyOf(req)[1] # "" /\ KeyOf(req)[2] # ""
        /\ NoBackendError)
            => Answered(200, "Success")
    /\ (prior = <<"deleted">> /\ NoBackendError)
            => Answered(200, "Value not found")

C2_Witness ==
    /\ prior = <<"deleted">>
    /\ ItemRequest("GET")
    /\ Len(calls) = 1 /\ calls[1].ok
    /\ Answered(200, "Value not found")

HasValue(item) == item # NoItem /\ "value" \in DOMAIN item

\* C3: upsert_test_entity(x, None) on an entity x that stores a value y
\* leaves the stored value of x equal to y.
C3_UpsertKeepsValue ==
    (/\ ret.op = "upsert"
     /\ ret.value = None
     /\ ret.result.ok
     /\ HasValue(ret.before))
        => /\ HasValue(entities[ret.id])
           /\ entities[ret.id]["value"] = ret.before["value"]

\* C4: POST /dynamodb/item with an empty body, or with a text or binary
\* body that does not parse as {part, idx, value}, is answered with status
\* 400 and writes nothing (checked where s3_bucket is set).
C4_BadBodyIs400 ==
    (/\ BucketSet
     /\ Invoked
     /\ ItemRequest("POST")
     /\ (req.body.kind = "Empty" \/ ~DynamodbPutItemPayload(req.body.data).ok))
        => /\ resp.outcome = "response"
           /\ resp.status = 400
           /\ calls = <<>>

\* the part / idx a request carries, None when it carries none: a query
\* parameter, or for POST a field of the JSON object of the body
Given(name) ==
    IF req.method = "POST"
    THEN IF name \in DOMAIN req.body.data.fields
         THEN Some(req.body.data.fields[name]) ELSE None
    ELSE query_param(req, name)

\* C5: on GET, POST (a JSON object body) and DELETE /dynamodb/item, a
\* missing or empty part is answered 400 "part is required", otherwise a
\* missing or empty idx 400 "idx is required", and no backend call is made
\* (checked where s3_bucket is set).
C5_StrictKeys ==
    (/\ BucketSet
     /\ Invoked
     /\ req.path = "/dynamodb/item"
     /\ req.method \in {"GET", "POST", "DELETE"}
     /\ req.method = "POST" => req.body.data.json = "object")
        => /\ unwrap_or_default(Given("part")) = ""
                => Answered(400, "part is required") /\ calls = <<>>
           /\ (unwrap_or_default(Given("part")) # ""
               /\ unwrap_or_default(Given("idx")) = "")
                => Answered(400, "idx is required") /\ calls = <<>>

\* C6: an invocation whose backend call fails still answers: status 500 with
\* the generic body "dynamodb error" or "s3 error"; the call is the only one
\* the invocation makes.
C6_BackendErrorIs500 ==
    /\ Len(calls) <= 1
    /\ \A n \in 1..Len(calls) :
        ~calls[n].ok
            => /\ Answered(500, IF calls[n].svc = "dynamodb"
                                THEN "dynamodb error" ELSE "s3 error")
               /\ resp.kind = "Text"

C6_Witness ==
    /\ Len(calls) = 1
    /\ ~calls[1].ok
    /\ calls[1].op = "presign_delete"
    /\ Answered(500, "s3 error")

\* C7: an OPTIONS request on any path, with s3_bucket set or not, is
\* answered 200 with an empty body and the three CORS headers, and makes no
\* backend call.
C7_Preflight ==
    req.method = "OPTIONS"
        => /\ Answered(200, "")
           /\ resp.kind = "Empty"
           /\ resp.headers = CorsHeaders
           /\ calls = <<>>

C7_Witness ==
    /\ req.method = "OPTIONS"
    /\ req.path = "/nope"
    /\ req.body.kind = "Text"
    /\ ~BucketSet
    /\ Answered(200, "")

\* the routing table of the specification; {id} is any path segment
IdPaths == {"/dynamodb/x", "/dynamodb/list"}

RoutingTable ==
    {<<"GET", "/helloWorld">>, <<"GET", "/dynamodb/item">>,
     <<"POST", "/dynamodb/item">>, <<"DELETE", "/dynamodb/item">>,
     <<"GET", "/dynamodb/list">>, <<"POST", "/dynamodb">>,
     <<"GET", "/api/s3/list">>, <<"GET", "/api/s3/upload-url">>,
     <<"GET", "/api/s3/download-url">>, <<"GET", "/api/s3/delete-url">>}
    \cup ({"GET", "DELETE"} \X IdPaths)

Unrouted ==
    /\ Invoked
    /\ req.method # "OPTIONS"
    /\ <<req.method, req.path>> \notin RoutingTable

NotFoundAnswer ==
    /\ Answered(404, "not found: " \o req.method \o " " \o req.path)
    /\ CorsHeaders \subseteq resp.headers
    /\ calls = <<>>

\* C8 as stated: every non-OPTIONS request that matches no route is
\* answered 404 "not found: {method} {path}" with the CORS headers and
\* without a backend call.
C8_UnroutedIs404 == Unrouted => NotFoundAnswer

\* C8 amended: the same, for a function whose s3_bucket variable is set.
C8_UnroutedIs404WhenConfigured == (BucketSet /\ Unrouted) => NotFoundAnswer

C8_Witness ==
    /\ req.method = "PUT"
    /\ req.path = "/dynamodb/item"
    /\ Answered(404, "not found: PUT /dynamodb/item")

\* the key the specification prescribes: base path, the "upload/" segment
\* or nothing, part/idx/ when both are present and non-empty, the file name
PrescribedKey(segment, filename) ==
    LET p == query_param(req, "part")
        i == query_param(req, "idx")
        both == p # None /\ i # None /\ p # Some("") /\ i # Some("")
    IN  unwrap_or_default(env.s3_path) \o segment
        \o (IF both THEN p[1] \o "/" \o i[1] \o "/" ELSE "") \o filename

\* C9: upload-url signs base + "upload/" + [part/idx/] + filename, list
\* uses base + "upload/" + [part/idx/], download-url and delete-url sign
\* base + [part/idx/] + filename, the bracketed segment present exactly when
\* part and idx are both given and non-empty.
C9_ObjectKeys ==
    \A n \in 1..Len(calls) :
        LET c == calls[n]
            filename == unwrap_or_default(query_param(req, "filename"))
        IN  /\ c.op = "list_objects" => c.args[2] = PrescribedKey("upload/", "")
            /\ c.op = "presign_upload" => c.args[2] = PrescribedKey("upload/", filename)
            /\ c.op = "presign_download" => c.args[2] = PrescribedKey("", filename)
            /\ c.op = "presign_delete" => c.args[2] = PrescribedKey("", filename)

C9_Witness ==
    /\ req.path = "/api/s3/download-url"
    /\ Len(calls) = 1
    /\ calls[1].op = "presign_download"
    /\ calls[1].args[2] = "base/p/i/f.txt"

\* C10: the entity routes are recognized: GET /dynamodb/list and
\* GET /dynamodb/{id} answer 200 or 500, and POST /dynamodb and
\* DELETE /dynamodb/{id} are never answered 404 (checked where s3_bucket is
\* set).
C10_EntityRoutes ==
    (BucketSet /\ Invoked)
        => /\ (req.method = "GET" /\ req.path \in IdPaths)
                => resp.outcome = "response" /\ resp.status \in {200, 500}
           /\ (\/ req.method = "POST" /\ req.path = "/dynamodb"
               \/ req.method = "DELETE" /\ req.path = "/dynamodb/x")
                => resp.outcome = "response" /\ resp.status # 404

====
